---- MODULE Spec2Model ----
(***************************************************************************)
(* Model of src/skiplist.py: a skip list (class SkipList over _Node).      *)
(*                                                                         *)
(* The heap is an arena: heap[n] is the _Node object with identity n.      *)
(* A forward list of a node of level L is a function over 0..L, as the     *)
(* Python list of length L+1 is indexed; an index outside it is an error.  *)
(* Python's None as a reference is Null; None as a value is the value None.*)
(***************************************************************************)
EXTENDS Integers, Sequences, FiniteSets

\* ---------------------------------------------------------------- bounds
MaxKey == 3
MaxMaxLevel == 2
MaxDup == 2

Keys == 1..MaxKey
None == "None"
Values == {None, "a"}

\* ------------------------------------------------------------ identities
Null == 0
header == -1
\* The allocator: the addresses a new node of this key can get.
AddrsOf(key) == ((key - 1) * MaxDup + 1)..(key * MaxDup)

NoDraw == -1

VARIABLES
  heap,       \* identity -> [key, value, forward], the live _Node objects
  level,      \* SkipList.level
  max_level,  \* SkipList.max_level
  last,       \* history: the last mutating call, its arguments, its result,
              \*          the level it drew, the node it touched, self.level before it
  ref,        \* history: the keys inserted and not deleted since, with the value last given
  pc,         \* the demo driver: how many calls of its script are done
  run         \* the mutating call in progress when its reference updates are
              \* single steps: its locals (x, update, i, new_level), or Idle

vars == <<heap, level, max_level, last, ref, pc, run>>

Idle == [op |-> "idle"]

\* _Node(level, key, value)
Node(lvl, key, value) ==
  [key |-> key, value |-> value, forward |-> [i \in 0..lvl |-> Null]]

\* ---------------------------------------------------------------- helpers
\* The outcomes of `random.random() < self.p` one call of _random_level reads:
\* it stops reading at the first FALSE, or after the draw made at lvl = max_level.
RECURSIVE Trues(_)
Trues(n) == IF n = 0 THEN <<>> ELSE <<TRUE>> \o Trues(n - 1)
Coins == {Trues(n) \o <<FALSE>> : n \in 0..max_level} \cup {Trues(max_level + 1)}

\* The loop without the cap.
RECURSIVE random_level_loop_NoCap(_, _, _)
random_level_loop_NoCap(coins, n, lvl) ==
  IF n + 1 <= Len(coins) /\ coins[n + 1]
    THEN random_level_loop_NoCap(coins, n + 1, lvl + 1)
    ELSE lvl

\* while random.random() < self.p and lvl < self.max_level: lvl += 1
RECURSIVE random_level_loop(_, _, _)
random_level_loop(coins, n, lvl) ==
  IF n + 1 <= Len(coins) /\ coins[n + 1] /\ lvl < max_level
    THEN random_level_loop(coins, n + 1, lvl + 1)
    ELSE lvl

random_level(coins) == random_level_loop(coins, 0, 0)

\* The walk with the comparison turned round.
RECURSIVE Walk_Greater(_, _, _, _)
Walk_Greater(h, x, i, key) ==
  LET nxt == h[x].forward[i] IN
  IF nxt # Null /\ h[nxt].key > key THEN Walk_Greater(h, nxt, i, key) ELSE x

\* The walk that also steps over an equal key.
RECURSIVE Walk_LessEq(_, _, _, _)
Walk_LessEq(h, x, i, key) ==
  LET nxt == h[x].forward[i] IN
  IF nxt # Null /\ h[nxt].key <= key THEN Walk_LessEq(h, nxt, i, key) ELSE x

\* while x.forward[i] and x.forward[i].key < key: x = x.forward[i]
RECURSIVE Walk(_, _, _, _)
Walk(h, x, i, key) ==
  LET nxt == h[x].forward[i] IN
  IF nxt # Null /\ h[nxt].key < key THEN Walk(h, nxt, i, key) ELSE x

\* for i in range(self.level, -1, -1): <walk>; update[i] = x
RECURSIVE ScanDown(_, _, _, _, _)
ScanDown(h, x, i, key, update) ==
  IF i < 0 THEN [x |-> x, update |-> update]
  ELSE LET y == Walk(h, x, i, key)
       IN ScanDown(h, y, i - 1, key, [update EXCEPT ![i] = y])

find_updates(key) ==
  ScanDown(heap, header, level, key, [i \in 0..max_level |-> Null]).update

\* The test without the key comparison.
Found_AnyNode(h, x, key) == x # Null

\* x and x.key == key
Found(h, x, key) == x # Null /\ h[x].key = key

\* ------------------------------------------------------------- operations
search(key) ==
  LET x0 == ScanDown(heap, header, level, key, [i \in 0..max_level |-> Null]).x
      x == heap[x0].forward[0]
  IN IF Found(heap, x, key) THEN heap[x].value ELSE None

contains(key) == search(key) # None

\* raise KeyError(key), as the outcome of a call
KeyError == "KeyError"

\* val = self.search(key); if val is None: raise KeyError(key); return val
getitem(key) == IF search(key) = None THEN KeyError ELSE search(key)

\* The count that stops at the last node instead of after it.
RECURSIVE len_loop_StopEarly(_, _, _)
len_loop_StopEarly(h, cnt, x) ==
  IF x # Null /\ h[x].forward[0] # Null
    THEN len_loop_StopEarly(h, cnt + 1, h[x].forward[0])
    ELSE cnt

\* cnt, x = 0, self.header.forward[0]; while x: cnt += 1; x = x.forward[0]
RECURSIVE len_loop(_, _, _)
len_loop(h, cnt, x) == IF x # Null THEN len_loop(h, cnt + 1, h[x].forward[0]) ELSE cnt

len == len_loop(heap, 0, heap[header].forward[0])

\* elems, x = [], self.header.forward[0]
\* while x: elems.append((x.key, x.value)); x = x.forward[0]
RECURSIVE display_loop(_, _, _)
display_loop(h, elems, x) ==
  IF x # Null
    THEN display_loop(h, Append(elems, <<h[x].key, h[x].value>>), h[x].forward[0])
    ELSE elems

\* What display prints.
display == display_loop(heap, <<>>, heap[header].forward[0])

\* Objects no reference reaches any more are freed: the live objects are the
\* header and what its forward references reach.
RECURSIVE Reach(_, _)
Reach(h, S) ==
  LET T == S \cup UNION {{h[n].forward[i] : i \in DOMAIN h[n].forward} : n \in S} IN
  LET U == {m \in T : m # Null} IN
  IF U = S THEN S ELSE Reach(h, U)

Collect(h) == [n \in Reach(h, {header}) |-> h[n]]

\* SkipList(max_level = ml)
Construct(ml) ==
  /\ max_level = ml
  /\ level = 0
  /\ heap = [n \in {header} |-> Node(max_level, None, None)]
  /\ last = [op |-> "init", key |-> 0, value |-> None, ret |-> None,
             drawn |-> NoDraw, node |-> Null, pre_level |-> 0]
  /\ ref = [k \in {} |-> None]

Init ==
  /\ \E ml \in 0..MaxMaxLevel : Construct(ml)
  /\ pc = 0
  /\ run = Idle

\* Splice with the predecessor's reference left as it was.
Splice_NoRelink(h, x, update, i) ==
  [h EXCEPT ![x].forward[i] = h[update[i]].forward[i]]

\* Splice with its two assignments in the other order.
Splice_Swapped(h, x, update, i) ==
  LET h1 == [h EXCEPT ![update[i]].forward[i] = x]
  IN [h1 EXCEPT ![x].forward[i] = h1[update[i]].forward[i]]

\* x.forward[i] = update[i].forward[i]; update[i].forward[i] = x
Splice(h, x, update, i) ==
  LET h1 == [h EXCEPT ![x].forward[i] = h[update[i]].forward[i]]
  IN [h1 EXCEPT ![update[i]].forward[i] = x]

\* The splice loop over range(new_level).
RECURSIVE SpliceLoop_Short(_, _, _, _, _)
SpliceLoop_Short(h, x, update, i, new_level) ==
  IF i >= new_level THEN h
  ELSE SpliceLoop_Short(Splice(h, x, update, i), x, update, i + 1, new_level)

\* for i in range(new_level + 1): <splice>
RECURSIVE SpliceLoop(_, _, _, _, _)
SpliceLoop(h, x, update, i, new_level) ==
  IF i > new_level THEN h
  ELSE SpliceLoop(Splice(h, x, update, i), x, update, i + 1, new_level)

\* The update array left as the scan returned it.
RaiseUpdates_Nothing(update, new_level) == update

\* for i in range(self.level + 1, new_level + 1): update[i] = self.header
RaiseUpdates(update, new_level) ==
  [i \in 0..max_level |->
     IF i \in (level + 1)..new_level THEN header ELSE update[i]]

\* The address of the object `_Node(new_level, key, value)` allocates.
Fresh(key) ==
  CHOOSE n \in AddrsOf(key) \ DOMAIN heap :
    \A m \in AddrsOf(key) \ DOMAIN heap : n <= m

insert(key, value) ==
  LET update == find_updates(key)
      x == heap[update[0]].forward[0]
  IN IF Found(heap, x, key)
     THEN /\ heap' = [heap EXCEPT ![x].value = value]
          /\ UNCHANGED <<level, max_level>>
          /\ last' = [op |-> "insert", key |-> key, value |-> value, ret |-> None,
                      drawn |-> NoDraw, node |-> x, pre_level |-> level]
          /\ ref' = [k \in DOMAIN ref \cup {key} |-> IF k = key THEN value ELSE ref[k]]
     ELSE \E coins \in Coins :
          LET new_level == random_level(coins)
              update2 == IF new_level > level THEN RaiseUpdates(update, new_level)
                                              ELSE update
              n == Fresh(key)
              h1 == [m \in DOMAIN heap \cup {n} |->
                       IF m = n THEN Node(new_level, key, value) ELSE heap[m]]
          IN /\ AddrsOf(key) \ DOMAIN heap # {}
             /\ heap' = SpliceLoop(h1, n, update2, 0, new_level)
             /\ level' = IF new_level > level THEN new_level ELSE level
             /\ UNCHANGED max_level
             /\ last' = [op |-> "insert", key |-> key, value |-> value, ret |-> None,
                         drawn |-> new_level, node |-> n, pre_level |-> level]
             /\ ref' = [k \in DOMAIN ref \cup {key} |-> IF k = key THEN value ELSE ref[k]]

\* Unlink that ends the level at the predecessor.
Unlink_ToNull(h, x, update, i) ==
  IF h[update[i]].forward[i] = x
    THEN [h EXCEPT ![update[i]].forward[i] = Null]
    ELSE h

\* if update[i].forward[i] is x: update[i].forward[i] = x.forward[i]
Unlink(h, x, update, i) ==
  IF h[update[i]].forward[i] = x
    THEN [h EXCEPT ![update[i]].forward[i] = h[x].forward[i]]
    ELSE h

\* The unlink loop run for level 0 alone.
UnlinkLoop_Bottom(h, x, update, i) == Unlink(h, x, update, 0)

\* The unlink loop started at level 1.
RECURSIVE UnlinkLoop_SkipBottom(_, _, _, _)
UnlinkLoop_SkipBottom(h, x, update, i) ==
  IF i > level THEN h
  ELSE IF i = 0 THEN UnlinkLoop_SkipBottom(h, x, update, 1)
  ELSE UnlinkLoop_SkipBottom(Unlink(h, x, update, i), x, update, i + 1)

\* for i in range(self.level + 1): <unlink>
RECURSIVE UnlinkLoop(_, _, _, _)
UnlinkLoop(h, x, update, i) ==
  IF i > level THEN h
  ELSE UnlinkLoop(Unlink(h, x, update, i), x, update, i + 1)

\* The level left as it is.
ShrinkLevel_Keep(h, lvl) == lvl

\* The level lowered once at most (an `if` for the `while`).
ShrinkLevel_Once(h, lvl) ==
  IF lvl > 0 /\ h[header].forward[lvl] = Null THEN lvl - 1 ELSE lvl

\* while self.level > 0 and self.header.forward[self.level] is None: self.level -= 1
RECURSIVE ShrinkLevel(_, _)
ShrinkLevel(h, lvl) ==
  IF lvl > 0 /\ h[header].forward[lvl] = Null THEN ShrinkLevel(h, lvl - 1) ELSE lvl

delete(key) ==
  LET update == find_updates(key)
      x == heap[update[0]].forward[0]
  IN IF ~Found(heap, x, key)
     THEN /\ UNCHANGED <<heap, level, max_level>>
          /\ last' = [op |-> "delete", key |-> key, value |-> None, ret |-> FALSE,
                      drawn |-> NoDraw, node |-> Null, pre_level |-> level]
          /\ ref' = [k \in DOMAIN ref \ {key} |-> ref[k]]
     ELSE LET h1 == UnlinkLoop(heap, x, update, 0)
          IN /\ heap' = Collect(h1)
             /\ level' = ShrinkLevel(h1, level)
             /\ UNCHANGED max_level
             /\ last' = [op |-> "delete", key |-> key, value |-> None, ret |-> TRUE,
                         drawn |-> NoDraw, node |-> x, pre_level |-> level]
             /\ ref' = [k \in DOMAIN ref \ {key} |-> ref[k]]

Next ==
  \/ \E key \in Keys, value \in Values : insert(key, value) /\ UNCHANGED <<pc, run>>
  \/ \E key \in Keys : delete(key) /\ UNCHANGED <<pc, run>>

Spec == Init /\ [][Next]_vars

\* --------------------------------------- a mutating call as single steps
\* No lock is held by insert or delete: another thread runs between any two
\* of their statements, and sees the list as each reference update leaves it.
MaxStepKey == 2
StepKeys == 1..MaxStepKey

\* insert up to the splice loop: scan, upsert or draw, raise the level, allocate.
BeginInsert(key, value) ==
  /\ run = Idle
  /\ LET update == find_updates(key)
         x == heap[update[0]].forward[0]
     IN IF Found(heap, x, key)
        THEN insert(key, value) /\ UNCHANGED <<pc, run>>
        ELSE \E coins \in Coins :
             LET new_level == random_level(coins)
                 update2 == IF new_level > level THEN RaiseUpdates(update, new_level)
                                                 ELSE update
                 n == Fresh(key)
             IN /\ AddrsOf(key) \ DOMAIN heap # {}
                /\ heap' = [m \in DOMAIN heap \cup {n} |->
                              IF m = n THEN Node(new_level, key, value) ELSE heap[m]]
                /\ level' = IF new_level > level THEN new_level ELSE level
                /\ run' = [op |-> "insert", key |-> key, value |-> value, x |-> n,
                           update |-> update2, i |-> 0, new_level |-> new_level,
                           pre_level |-> level]
                /\ UNCHANGED <<max_level, last, ref, pc>>

\* One pass of `for i in range(new_level + 1)`; insert returns after the last.
SpliceStep ==
  /\ run.op = "insert"
  /\ heap' = Splice(heap, run.x, run.update, run.i)
  /\ IF run.i < run.new_level
       THEN /\ run' = [run EXCEPT !.i = @ + 1]
            /\ UNCHANGED <<last, ref>>
       ELSE /\ run' = Idle
            /\ last' = [op |-> "insert", key |-> run.key, value |-> run.value,
                        ret |-> None, drawn |-> run.new_level, node |-> run.x,
                        pre_level |-> run.pre_level]
            /\ ref' = [k \in DOMAIN ref \cup {run.key} |->
                         IF k = run.key THEN run.value ELSE ref[k]]
  /\ UNCHANGED <<level, max_level, pc>>

\* delete up to the unlink loop: scan and `return False` when not found.
BeginDelete(key) ==
  /\ run = Idle
  /\ LET update == find_updates(key)
         x == heap[update[0]].forward[0]
     IN IF ~Found(heap, x, key)
        THEN delete(key) /\ UNCHANGED <<pc, run>>
        ELSE /\ run' = [op |-> "delete", key |-> key, x |-> x, update |-> update,
                        i |-> 0, pre_level |-> level]
             /\ UNCHANGED <<heap, level, max_level, last, ref, pc>>

\* One pass of `for i in range(self.level + 1)`.
UnlinkStep ==
  /\ run.op = "delete"
  /\ run.i <= level
  /\ heap' = Unlink(heap, run.x, run.update, run.i)
  /\ run' = [run EXCEPT !.i = @ + 1]
  /\ UNCHANGED <<level, max_level, last, ref, pc>>

\* The loop is over: lower the level while its top is empty, return True.
ShrinkStep ==
  /\ run.op = "delete"
  /\ run.i > level
  /\ level' = ShrinkLevel(heap, level)
  /\ heap' = Collect(heap)
  /\ run' = Idle
  /\ last' = [op |-> "delete", key |-> run.key, value |-> None, ret |-> TRUE,
              drawn |-> NoDraw, node |-> run.x, pre_level |-> run.pre_level]
  /\ ref' = [k \in DOMAIN ref \ {run.key} |-> ref[k]]
  /\ UNCHANGED <<max_level, pc>>

StepNext ==
  \/ \E key \in StepKeys, value \in Values : BeginInsert(key, value)
  \/ SpliceStep
  \/ \E key \in StepKeys : BeginDelete(key)
  \/ UnlinkStep
  \/ ShrinkStep

SpecSteps == Init /\ [][StepNext]_vars

\* ------------------------------------------------- the level generator alone
\* The randomness source: the outcomes of the first CoinLen calls of
\* `random.random() < self.p`, any of them.
CoinLen == 6
CoinStreams == [1..CoinLen -> BOOLEAN]

\* One call of _random_level on a list just constructed.
DrawLevel ==
  \E coins \in CoinStreams :
    /\ last' = [op |-> "random_level", key |-> 0, value |-> None,
                ret |-> random_level(coins), drawn |-> random_level(coins),
                node |-> Null, pre_level |-> level, coins |-> coins]
    /\ UNCHANGED <<heap, level, max_level, ref, pc, run>>

SpecLevel == Init /\ [][DrawLevel]_vars

\* ------------------------------------------------------------ the demo
\* sl = SkipList(max_level=8, p=0.5), with the 8 bounded: the level sequences of
\* six inserts are (max_level + 1)^6.
DemoMaxLevel == 5

\* The calls of the demo that change the list, in order, and then the second
\* delete(20) of the concrete scenario.
Demo ==
  << [op |-> "insert", key |-> 20, value |-> "val_20"],
     [op |-> "insert", key |-> 5, value |-> "val_5"],
     [op |-> "insert", key |-> 15, value |-> "val_15"],
     [op |-> "insert", key |-> 30, value |-> "val_30"],
     [op |-> "insert", key |-> 10, value |-> "val_10"],
     [op |-> "insert", key |-> 25, value |-> "val_25"],
     [op |-> "insert", key |-> 10, value |-> "TEN"],
     [op |-> "delete", key |-> 20, value |-> None],
     [op |-> "delete", key |-> 20, value |-> None] >>

DemoInit == Construct(DemoMaxLevel) /\ pc = 0 /\ run = Idle

DemoInsert ==
  /\ pc < Len(Demo)
  /\ Demo[pc + 1].op = "insert"
  /\ insert(Demo[pc + 1].key, Demo[pc + 1].value)
  /\ pc' = pc + 1
  /\ UNCHANGED run

DemoDelete ==
  /\ pc < Len(Demo)
  /\ Demo[pc + 1].op = "delete"
  /\ delete(Demo[pc + 1].key)
  /\ pc' = pc + 1
  /\ UNCHANGED run

DemoNext == DemoInsert \/ DemoDelete

SpecDemo == DemoInit /\ [][DemoNext]_vars

\* ------------------------------------------------- what the claims speak of
\* The nodes met by following forward[i] from x, at most `fuel` of them.
RECURSIVE Chain(_, _, _)
Chain(x, i, fuel) ==
  IF x = Null \/ fuel = 0 THEN <<>>
  ELSE <<x>> \o Chain(heap[x].forward[i], i, fuel - 1)

\* The nodes linked at level i, in traversal order from the header.
LevelNodes(i) == Chain(heap[header].forward[i], i, Cardinality(DOMAIN heap))
LevelKeys(i) == LET ns == LevelNodes(i) IN [j \in 1..Len(ns) |-> heap[ns[j]].key]
NodeSet(i) == LET ns == LevelNodes(i) IN {ns[j] : j \in 1..Len(ns)}
KeySet(i) == LET ks == LevelKeys(i) IN {ks[j] : j \in 1..Len(ks)}
StrictlyIncreasing(s) == \A j \in 1..(Len(s) - 1) : s[j] < s[j + 1]
Stored == DOMAIN ref
\* How many nodes of the level-0 traversal hold key k.
KeyCount0(k) == LET ks == LevelKeys(0) IN Cardinality({j \in 1..Len(ks) : ks[j] = k})
\* The highest level the header links a node at, 0 when there is none.
HighestOccupied ==
  LET S == {i \in 0..max_level : heap[header].forward[i] # Null}
  IN IF S = {} THEN 0 ELSE CHOOSE m \in S : \A j \in S : j <= m

\* ------------------------------------------------------------------ claims
\* C1: after insert(k, v) completes, search(k) returns v, whether k was absent
\* or present before and whatever level was drawn.
C1_RoundTrip == last.op = "insert" => search(last.key) = last.value

C1_Witness ==
  /\ last.op = "insert" /\ last.value = "a" /\ last.drawn >= 1
  /\ len = 3 /\ search(last.key) = "a"

\* C2: at every level 0..max_level the keys met by following forward[i] from
\* the header are strictly increasing, so no key occurs twice at a level.
C2_Sorted == \A i \in 0..max_level : StrictlyIncreasing(LevelKeys(i))

C2_Witness ==
  /\ last.op = "delete" /\ last.ret = TRUE
  /\ max_level >= 1 /\ Len(LevelKeys(1)) >= 2 /\ Len(LevelKeys(0)) >= 2

\* C3: for every level i below the current level, the nodes (hence the keys)
\* linked at level i+1 are among those linked at level i.
C3_Subset ==
  \A i \in 0..(level - 1) :
    /\ NodeSet(i + 1) \subseteq NodeSet(i)
    /\ KeySet(i + 1) \subseteq KeySet(i)

C3_Witness ==
  /\ level = 2 /\ KeySet(2) # {}
  /\ KeySet(2) # KeySet(1) /\ KeySet(1) # KeySet(0)

\* C4: a delete(k) of a stored key k returns true, after it search(k) returns
\* absent, and len() is one less than before the call.
C4_DeletePresent ==
  [][\A k \in Stored :
       (last'.op = "delete" /\ last'.key = k) =>
         (last'.ret = TRUE /\ search(k)' = None /\ len' = len - 1)]_vars

C4_Witness ==
  /\ last.op = "delete" /\ last.ret = TRUE /\ last.key \notin Stored
  /\ search(last.key) = None /\ len = 2

\* C5: a delete(k) of a key that is not stored returns false and leaves every
\* node, every forward reference, every value and the current level unchanged.
C5_DeleteAbsent ==
  [][\A k \in Keys \ Stored :
       (last'.op = "delete" /\ last'.key = k) =>
         (last'.ret = FALSE /\ heap' = heap /\ level' = level)]_vars

C5_Witness ==
  /\ last.op = "delete" /\ last.ret = FALSE /\ len >= 1 /\ level >= 1
\* C6: insert(k, v2) on a stored key k changes that node's value and nothing
\* else: no level is drawn, no node is created, every node keeps its key and
\* its forward references (so its height), the current level and len() are
\* unchanged, and k is met exactly once at level 0.
C6_Upsert ==
  [][\A k \in Stored :
       (last'.op = "insert" /\ last'.key = k) =>
         /\ last'.drawn = NoDraw
         /\ DOMAIN heap' = DOMAIN heap
         /\ \A n \in DOMAIN heap :
              /\ heap'[n].key = heap[n].key
              /\ heap'[n].forward = heap[n].forward
              /\ (n # last'.node => heap'[n].value = heap[n].value)
         /\ last'.node \in DOMAIN heap \ {header}
         /\ heap[last'.node].key = k
         /\ heap'[last'.node].value = last'.value
         /\ level' = level
         /\ len' = len
         /\ KeyCount0(k)' = 1]_vars

C6_Witness ==
  /\ last.op = "insert" /\ last.drawn = NoDraw /\ last.value = "a"
  /\ len = 2 /\ level >= 1 /\ KeyCount0(last.key) = 1

\* C7: 0 <= level <= max_level, the header links a node at the current level
\* whenever that level is above 0, and it links none at any level above it.
C7_LevelOccupancy ==
  /\ level \in 0..max_level
  /\ (level > 0 => heap[header].forward[level] # Null)
  /\ \A i \in (level + 1)..max_level : heap[header].forward[i] = Null

C7_Witness ==
  /\ last.op = "delete" /\ last.ret = TRUE /\ last.pre_level = 2
  /\ level = 1 /\ len >= 2

\* C8: when delete removes the only node linked at the current top level, the
\* level afterwards is the highest level that still holds a node (0 when the
\* list became empty); when other nodes remain there, the level is unchanged.
C8_HeightShrink ==
  [][(last'.op = "delete" /\ last'.ret = TRUE) =>
       IF LevelNodes(level) = <<last'.node>>
         THEN level' = HighestOccupied'
         ELSE level' = level]_vars

C8_Witness ==
  /\ last.op = "delete" /\ last.ret = TRUE /\ last.pre_level = 2
  /\ level = 0 /\ len >= 1

\* C9: len() is the number of distinct keys inserted and not deleted since,
\* which is the number of nodes the level-0 traversal from the header meets.
C9_Size == len = Cardinality(Stored) /\ len = Len(LevelNodes(0))

C9_Witness ==
  /\ last.op = "delete" /\ last.ret = TRUE /\ len = 1 /\ Cardinality(Stored) = 1

\* C10: for every key k, the membership test (k in list) is true exactly when
\* k is stored, whatever the value stored with it.
C10_Membership == \A k \in Keys : contains(k) <=> k \in Stored
\* C11: list[k] raises KeyError only when k is not stored; when k is stored it
\* returns the stored value, whatever value that is.
C11_KeyedRead ==
  \A k \in Keys : getitem(k) = (IF k \in Stored THEN ref[k] ELSE KeyError)
\* C12: in the demo (max_level = DemoMaxLevel), for every sequence of drawn levels:
\* after each call the level-0 traversal is the stored keys in ascending order
\* (so [5, 10, 15, 20, 25, 30] after the six inserts); then search(15) is
\* val_15 and search(99) is absent; after insert(10, TEN) the order is the
\* same, search(10) is TEN and len() is 6; delete(20) returns true and leaves
\* [5, 10, 15, 25, 30] with len() = 5; a second delete(20) returns false.
DemoKeys == <<5, 10, 15, 20, 25, 30>>
IsStored(k) == k \in Stored

C12_Demo ==
  LET keys == LevelKeys(0) IN
  /\ keys = SelectSeq(DemoKeys, IsStored)
  /\ (pc = 6 => /\ keys = <<5, 10, 15, 20, 25, 30>>
                /\ search(15) = "val_15"
                /\ search(99) = None)
  /\ (pc = 7 => /\ keys = <<5, 10, 15, 20, 25, 30>>
                /\ search(10) = "TEN"
                /\ len = 6)
  /\ (pc = 8 => /\ last.ret = TRUE
                /\ keys = <<5, 10, 15, 25, 30>>
                /\ len = 5)
  /\ (pc = 9 => /\ last.ret = FALSE
                /\ keys = <<5, 10, 15, 25, 30>>
                /\ len = 5)

C12_Witness ==
  /\ pc = 9 /\ last.op = "delete" /\ last.ret = FALSE
  /\ len = 5 /\ level = DemoMaxLevel /\ search(10) = "TEN"
\* C13: for every outcome sequence of the randomness source and every
\* max_level, _random_level returns the number of leading successes capped at
\* max_level (no resampling), a value in 0..max_level, so a node allocated
\* with it has no forward slot the header lacks.
RECURSIVE LeadingTrues(_)
LeadingTrues(coins) ==
  IF coins # <<>> /\ Head(coins) THEN 1 + LeadingTrues(Tail(coins)) ELSE 0

C13_LevelRange ==
  last.op = "random_level" =>
    /\ last.ret \in 0..max_level
    /\ last.ret = (IF LeadingTrues(last.coins) < max_level
                     THEN LeadingTrues(last.coins) ELSE max_level)
    /\ DOMAIN Node(last.ret, 1, None).forward \subseteq DOMAIN heap[header].forward

C13_Witness ==
  /\ last.op = "random_level" /\ max_level >= 1
  /\ LeadingTrues(last.coins) > max_level /\ last.ret = max_level
\* C14: the forward chain of every level is acyclic and ends in null after at
\* most as many nodes as are stored, so every loop of search, insert, delete
\* and len that follows forward references makes a bounded number of hops and
\* the call terminates.
StoredNodes == DOMAIN heap \ {header}

C14_Acyclic ==
  \A i \in 0..max_level :
    /\ Len(LevelNodes(i)) <= Cardinality(StoredNodes)
    /\ Cardinality(NodeSet(i)) = Len(LevelNodes(i))
    /\ NodeSet(i) \subseteq StoredNodes

C14_Witness ==
  /\ last.op = "insert" /\ last.drawn = 2 /\ last.key = 2
  /\ Len(LevelNodes(0)) = 3 /\ Len(LevelNodes(1)) >= 2 /\ Len(LevelNodes(2)) >= 2
\* C15: between the reference updates of one insert or delete, another
\* operation can see a list in which a node is linked at a level and not at
\* the level below (or the level is not the highest occupied one); once the
\* call has run to completion, and so whenever calls are serialized, every
\* level is sorted and each level's nodes are among those of the level below.
C15_SerializedOk == run = Idle => (C2_Sorted /\ C3_Subset)

C15_Witness ==
  /\ run.op = "delete" /\ run.i = 1 /\ level >= 1
  /\ run.x \in NodeSet(1) /\ run.x \notin NodeSet(0)
  /\ ~C3_Subset
\* C16: after every call the level-0 traversal is the reference map's (key,
\* value) pairs in ascending key order, and search(k) is the reference map's
\* value for every stored k and absent for every other k (the reference map
\* changes at the key of the call alone, so no call touches another key).
RECURSIVE Ascending(_)
Ascending(S) ==
  IF S = {} THEN <<>>
  ELSE LET m == CHOOSE k \in S : \A j \in S : k <= j
       IN <<m>> \o Ascending(S \ {m})

RefItems == LET ks == Ascending(Stored) IN [j \in 1..Len(ks) |-> <<ks[j], ref[ks[j]]>>]

C16_RefinesMap ==
  /\ display = RefItems
  /\ \A k \in Keys : search(k) = (IF k \in Stored THEN ref[k] ELSE None)

C16_Witness ==
  /\ last.op = "delete" /\ last.ret = TRUE /\ last.key = 2
  /\ display = <<(<<1, "a">>), (<<3, None>>)>>

\* C17: for every target key, _find_updates returns, at each level i in
\* 0..level, the last node linked at level i whose key is below the target,
\* or the header when there is none, so that node's forward[i] is null or has
\* a key not below the target; the entries above the current level are unset.
ScanTargets == 0..(MaxKey + 1)

\* The last node of the level's traversal ns whose key is below the target.
Predecessor(ns, key) ==
  LET below == {j \in 1..Len(ns) : heap[ns[j]].key < key}
  IN IF below = {} THEN header
     ELSE ns[CHOOSE j \in below : \A m \in below : m <= j]

C17_ScanPost ==
  LET nodes == [i \in 0..level |-> LevelNodes(i)] IN
  \A key \in ScanTargets :
    LET update == find_updates(key) IN
    \A i \in 0..max_level :
      IF i <= level
        THEN /\ update[i] = Predecessor(nodes[i], key)
             /\ LET nxt == heap[update[i]].forward[i]
                IN nxt = Null \/ heap[nxt].key >= key
        ELSE update[i] = Null

C17_Witness ==
  /\ level = 1 /\ max_level = 2 /\ len = 3
  /\ find_updates(3)[1] \notin {header, find_updates(3)[0]}
  /\ find_updates(3)[0] # header
  /\ find_updates(3)[2] = Null
\* C18: an insert of a new key with drawn level L links the new node at the
\* levels 0..L and at no other; at each level i <= L it follows the scan's
\* predecessor for that level (the header at a newly activated level) and its
\* forward[i] is what that predecessor pointed to before; if L is above the
\* previous level the level becomes L and the new node is the only node of
\* the newly activated levels, otherwise the level is unchanged.
C18_InsertSplice ==
  [][\A k \in Keys \ Stored :
       (last'.op = "insert" /\ last'.key = k) =>
         LET L == last'.drawn
             n == last'.node
             update == find_updates(k)
             pred(i) == IF i <= level THEN update[i] ELSE header
         IN /\ L \in 0..max_level
            /\ n \notin DOMAIN heap
            /\ DOMAIN heap'[n].forward = 0..L
            /\ \A i \in 0..max_level : (n \in NodeSet(i)') <=> (i <= L)
            /\ \A i \in 0..L :
                 /\ heap'[pred(i)].forward[i] = n
                 /\ heap'[n].forward[i] = heap[pred(i)].forward[i]
            /\ IF L > level
                 THEN /\ level' = L
                      /\ \A i \in (level + 1)..L : LevelNodes(i)' = <<n>>
                 ELSE level' = level]_vars

C18_Witness ==
  /\ last.op = "insert" /\ last.key = 2 /\ last.drawn = 2 /\ last.pre_level = 0
  /\ len = 3 /\ LevelNodes(2) = <<last.node>>

\* C19: after a delete(k) that returns true no forward slot of the header or
\* of a remaining node refers to the removed node; at each level the removed
\* node had, the scan's predecessor now points to the removed node's former
\* successor; the slots at the levels above its height are unchanged.
C19_DeleteSevers ==
  [][\A k \in Stored :
       (last'.op = "delete" /\ last'.key = k /\ last'.ret = TRUE) =>
         LET x == last'.node
             update == find_updates(k)
             top == Cardinality(DOMAIN heap[x].forward) - 1
         IN /\ x \in DOMAIN heap /\ heap[x].key = k
            /\ x \notin DOMAIN heap'
            /\ DOMAIN heap' = DOMAIN heap \ {x}
            /\ \A n \in DOMAIN heap' : \A i \in DOMAIN heap'[n].forward :
                 /\ heap'[n].forward[i] # x
                 /\ (i > top => heap'[n].forward[i] = heap[n].forward[i])
            /\ \A i \in 0..top :
                 heap'[update[i]].forward[i] = heap[x].forward[i]]_vars

C19_Witness ==
  /\ last.op = "delete" /\ last.ret = TRUE /\ last.key = 2 /\ last.pre_level = 2
  /\ len = 2 /\ Len(LevelNodes(1)) = 2 /\ last.node \notin DOMAIN heap

\* C20: every forward reference at level i refers to a live node that has a
\* slot i, the header has max_level + 1 slots, and every update[i] insert uses
\* (i up to any drawn level) or delete uses (i up to the current level) is a
\* node with a slot i: no forward list is indexed out of range and no unset
\* update entry is dereferenced, on the empty list and with max_level = 0 too.
C20_SlotBounds ==
  /\ DOMAIN heap[header].forward = 0..max_level
  /\ level \in 0..max_level
  /\ \A n \in DOMAIN heap : \A i \in DOMAIN heap[n].forward :
       LET m == heap[n].forward[i]
       IN m # Null => (m \in DOMAIN heap /\ i \in DOMAIN heap[m].forward)
  /\ \A key \in ScanTargets :
       LET update == find_updates(key) IN
       /\ \A i \in 0..level :
            update[i] \in DOMAIN heap /\ i \in DOMAIN heap[update[i]].forward
       /\ \A L \in {random_level(coins) : coins \in Coins} :
            LET update2 == IF L > level THEN RaiseUpdates(update, L) ELSE update
            IN \A i \in 0..L :
                 update2[i] \in DOMAIN heap /\ i \in DOMAIN heap[update2[i]].forward

C20_Witness ==
  /\ max_level = 0 /\ len = 0 /\ last.op = "delete" /\ last.ret = TRUE
====
